---- MODULE Spec2Model ----
(***************************************************************************)
(* Model of src/vastai_autopricer.py: the market snapshot builder          *)
(* (VastAIPricer.get_market_data), the price decision engine               *)
(* (VastAIPricer.calculate_price and its helpers) and the poll loop        *)
(* (VastAIPricer.process_machines / run).                                  *)
(*                                                                         *)
(* Prices are Python floats in the program.  Here a price is a natural     *)
(* number of "ticks", Sub ticks making 0.0001 dollars, so that             *)
(* round(x, 4) is a real conversion: it maps a value to the nearest        *)
(* multiple of Sub.  Products with 0.9, 0.95, 0.92 and 0.05 are kept exact *)
(* as a numerator over a denominator until they are rounded or compared.   *)
(* An exact tie of round(x, 4) is resolved to the even neighbour, as        *)
(* round() does for a value its float holds exactly; with exact arithmetic *)
(* in place of floats the model's decisions and snapshots are those of the *)
(* program on every input of the bounds below.  Counts and the reliability *)
(* average of MarketData feed only the log and are left out.               *)
(***************************************************************************)
EXTENDS Integers, Sequences, FiniteSets, TLC

\* Ticks per 0.0001 dollars (the resolution of the price grid).
Sub == 3
\* Largest price, in ticks, of an offer, a machine or a configured bound.
MaxPrice == 6
\* Largest number of offers one search returns.
MaxOffers == 2
\* Largest number of machines one listing returns.
MaxMachines == 2

\* Python's None (Optional[float] fields of MarketData; JSON null in an offer).
None == -1

VARIABLES config, pc, machines, idx, machine, offers, search, market,
          decision, update, processed

vars == <<config, pc, machines, idx, machine, offers, search, market,
          decision, update, processed>>

----------------------------------------------------------------------------
\* Helpers of the arithmetic.

Min2(a, b) == IF a <= b THEN a ELSE b
Max2(a, b) == IF a >= b THEN a ELSE b
Abs(a) == IF a >= 0 THEN a ELSE 0 - a

\* Python truthiness of an Optional[float]: None and 0.0 are both falsy.
Truthy(x) == x # None /\ x # 0

\* round(num/den, 4) for num/den >= 0 in ticks: the nearest multiple of Sub.
Round4(num, den) ==
    LET D == den * Sub
        k == num \div D
        r == num % D
    IN  IF 2 * r < D THEN k * Sub
        ELSE IF 2 * r > D THEN (k + 1) * Sub
        ELSE IF k % 2 = 0 THEN k * Sub ELSE (k + 1) * Sub

RECURSIVE SumSeq(_)
SumSeq(s) == IF s = <<>> THEN 0 ELSE Head(s) + SumSeq(Tail(s))

RECURSIVE MinSeq(_)
MinSeq(s) == IF Len(s) = 1 THEN s[1] ELSE Min2(Head(s), MinSeq(Tail(s)))

\* list.sort(): ascending insertion sort.
RECURSIVE Insert(_, _)
Insert(x, s) ==
    IF s = <<>> THEN <<x>>
    ELSE IF x <= Head(s) THEN <<x>> \o s
    ELSE <<Head(s)>> \o Insert(x, Tail(s))

RECURSIVE SortAsc(_)
SortAsc(s) == IF s = <<>> THEN <<>> ELSE Insert(Head(s), SortAsc(Tail(s)))

\* [offer['dph_base'] for offer in s]
DphBase(s) == [i \in 1..Len(s) |-> s[i].dph_base]

----------------------------------------------------------------------------
\* The inputs.

SeqsUpTo(S, n) == UNION {[1..k -> S] : k \in 0..n}

Verifications == {"verified", "unverified", "deverified"}

\* One offer of the search feed.  A missing dph_base reads as 0 and a missing
\* rented flag as False (dict.get defaults), so they need no value of their own;
\* dph_base = None is a JSON null.
Offers == [dph_base : (0..MaxPrice) \cup {None}, verification : Verifications,
           rented : BOOLEAN]

\* What run_vastai_command returns to get_market_data: None (failed = TRUE) when
\* the command fails or prints no JSON, else the decoded list.
Responses == {[failed |-> TRUE, list |-> <<>>]}
             \cup {[failed |-> FALSE, list |-> l] : l \in SeqsUpTo(Offers, MaxOffers)}

Machines == [current_price : 0..MaxPrice, is_rented : BOOLEAN, verified : BOOLEAN]

Configs == {c \in [base_price : 0..MaxPrice, max_price : 0..MaxPrice,
                   test_mode : BOOLEAN] : c.base_price <= c.max_price}

----------------------------------------------------------------------------
\* get_market_data

MarketData(avg, median, min, minver, uavg, umedian, umin) ==
    [avg_price |-> avg, median_price |-> median, min_price |-> min,
     min_verified_price |-> minver, unverified_avg_price |-> uavg,
     unverified_median_price |-> umedian, unverified_min_price |-> umin]

NoMarket == MarketData(None, None, None, None, None, None, None)

\* The filter "not offer.get('rented', False) and offer.get('dph_base', 0) > 0".
\* The comparison is evaluated only for an offer that is not rented, and raises
\* TypeError when dph_base is None.
IsAvailable(o) == ~o.rented /\ o.dph_base > 0
IsVerified(o) == o.verification = "verified"
IsUnverified(o) == o.verification \in {"unverified", "deverified"}
IsVerifiedAvailable(o) == IsVerified(o) /\ IsAvailable(o)
IsUnverifiedAvailable(o) == IsUnverified(o) /\ IsAvailable(o)

\* The snapshot build raises (TypeError) on a not-rented offer whose price is null.
SnapshotRaises(r) ==
    ~r.failed /\ \E i \in 1..Len(r.list) :
                    ~r.list[i].rented /\ r.list[i].dph_base = None

AvgOf(prices) == Round4(SumSeq(prices), Len(prices))
MinOf(prices) == Round4(MinSeq(prices), 1)
\* The median taken at the lower middle index, (n - 1) // 2.
MedianOfLowerMiddle(prices) ==
    Round4(SortAsc(prices)[((Len(prices) - 1) \div 2) + 1], 1)

\* round(sorted_prices[len(prices) // 2], 4)
MedianOf(prices) == Round4(SortAsc(prices)[(Len(prices) \div 2) + 1], 1)

get_market_data(r) ==
    IF r.failed \/ Len(r.list) = 0 THEN NoMarket
    ELSE
      LET available_prices == DphBase(SelectSeq(r.list, IsAvailable))
          verified_available_prices == DphBase(SelectSeq(r.list, IsVerifiedAvailable))
          unverified_available_prices ==
              DphBase(SelectSeq(r.list, IsUnverifiedAvailable))
          min_verified_price ==
              IF verified_available_prices # <<>>
              THEN MinOf(verified_available_prices) ELSE None
          has_unverified == unverified_available_prices # <<>>
          uavg == IF has_unverified THEN AvgOf(unverified_available_prices) ELSE None
          umin == IF has_unverified THEN MinOf(unverified_available_prices) ELSE None
          umedian == IF has_unverified THEN MedianOf(unverified_available_prices)
                     ELSE None
      IN  IF available_prices = <<>>
          THEN MarketData(None, None, None, min_verified_price, uavg, umedian, umin)
          ELSE MarketData(AvgOf(available_prices), MedianOf(available_prices),
                          MinOf(available_prices), min_verified_price,
                          uavg, umedian, umin)

----------------------------------------------------------------------------
\* The price decision engine.

PriceDecision(new_price, action, reason) ==
    [new_price |-> new_price, action |-> action, reason |-> reason]

\* _clamp_price(num/den): round(max(base_price, min(price, max_price)), 4).
ClampPrice(cfg, num, den) ==
    Round4(Max2(cfg.base_price * den, Min2(num, cfg.max_price * den)), den)

\* _price_for_rented_machine
PriceForRentedMachine(current, mkt) ==
    PriceDecision(current, "HOLD", "rented")

\* The dead band with 0.5 written for 0.05: a change of up to 50% is suppressed.
ExceedsDeadBandWide(reference_min, current) ==
    Abs(92 * reference_min - 100 * current) > 50 * current

\* "abs(target - current) > current * 0.05" for target = reference_min * 0.92.
ExceedsDeadBand(reference_min, current) ==
    Abs(92 * reference_min - 100 * current) > 5 * current

\* "market.min_verified_price if (machine.verified and market.min_verified_price)
\*  else market.min_price"
ReferenceMin(mkt, m) ==
    IF m.verified /\ Truthy(mkt.min_verified_price)
    THEN mkt.min_verified_price ELSE mkt.min_price

\* _price_for_idle_machine with the no-data cut taken from the floor instead of
\* the current price.
PriceForIdleMachineNoDataFloor(cfg, current, mkt, m) ==
    IF ~Truthy(mkt.median_price)
    THEN PriceDecision(ClampPrice(cfg, 9 * cfg.base_price, 10), "DECREASE",
                       "no_market_data")
    ELSE PriceDecision(current, "HOLD", "at_or_below_minimum")

\* _price_for_idle_machine
PriceForIdleMachine(cfg, current, mkt, m) ==
    IF ~Truthy(mkt.median_price)
    THEN PriceDecision(ClampPrice(cfg, 9 * current, 10), "DECREASE", "no_market_data")
    ELSE
      LET reference_min == ReferenceMin(mkt, m)
      IN  IF current > mkt.median_price
          THEN LET multiplier == IF m.verified THEN 95 ELSE 90
               IN  PriceDecision(ClampPrice(cfg, mkt.median_price * multiplier, 100),
                                 "DECREASE", "above_median")
          ELSE IF current > reference_min /\ ExceedsDeadBand(reference_min, current)
          THEN PriceDecision(ClampPrice(cfg, 92 * reference_min, 100),
                             "DECREASE", "near_minimum")
          ELSE PriceDecision(current, "HOLD", "at_or_below_minimum")

\* calculate_price without its branch on the rental status.
calculate_price_ignoring_rental(cfg, m, mkt) ==
    PriceForIdleMachine(cfg, m.current_price, mkt, m)

\* calculate_price: the logging before the branch changes no state and, for the
\* snapshots get_market_data builds, compares no None.
calculate_price(cfg, m, mkt) ==
    IF m.is_rented
    THEN PriceForRentedMachine(m.current_price, mkt)
    ELSE PriceForIdleMachine(cfg, m.current_price, mkt, m)

\* update_machine_price: in test mode no call goes out and the result is True;
\* otherwise the call goes out and its result is the marketplace's success flag.
UpdateCall(cfg, new_price, success) ==
    IF cfg.test_mode
    THEN [called |-> FALSE, price |-> new_price, ok |-> TRUE]
    ELSE [called |-> TRUE, price |-> new_price, ok |-> success]

----------------------------------------------------------------------------
\* Specification of the snapshot builder alone: a search response comes in,
\* get_market_data turns it into a snapshot.

NoMachine == [current_price |-> 0, is_rented |-> FALSE, verified |-> FALSE]
NoDecision == [new_price |-> 0, action |-> "NONE", reason |-> "none"]
NoUpdate == [called |-> FALSE, price |-> 0, ok |-> FALSE]
NoConfig == [base_price |-> 0, max_price |-> 0, test_mode |-> TRUE]
NoResponse == [failed |-> TRUE, list |-> <<>>]

InitMarket ==
    /\ config = NoConfig
    /\ pc = "search"
    /\ machines = <<>>
    /\ idx = 0
    /\ machine = NoMachine
    /\ offers \in Responses
    /\ search = "none"
    /\ market = NoMarket
    /\ decision = NoDecision
    /\ update = NoUpdate
    /\ processed = <<>>

BuildSnapshot ==
    /\ pc = "search"
    /\ IF SnapshotRaises(offers)
       THEN pc' = "raised" /\ market' = market
       ELSE pc' = "built" /\ market' = get_market_data(offers)
    /\ UNCHANGED <<config, machines, idx, machine, offers, search, decision,
                   update, processed>>

NextMarket == BuildSnapshot

SpecMarket == InitMarket /\ [][NextMarket]_vars

----------------------------------------------------------------------------
\* Specification of one pass of the body of process_machines' for loop, for an
\* arbitrary machine of the listing: search the offers and build the snapshot,
\* decide the price, apply the decision.

\* How a search ends: "failed" (run_vastai_command returned None), "empty" (an
\* empty list), "offers" (a snapshot was built from a non-empty list), "raises"
\* (the snapshot build raised).
SearchKind(r) ==
    IF r.failed THEN "failed"
    ELSE IF Len(r.list) = 0 THEN "empty"
    ELSE IF SnapshotRaises(r) THEN "raises"
    ELSE "offers"

\* Every outcome of get_market_data over the responses of the search.
SearchOutcomes ==
    {[kind |-> SearchKind(r),
      market |-> IF SnapshotRaises(r) THEN NoMarket ELSE get_market_data(r)] :
        r \in Responses}

Init ==
    /\ config \in Configs
    /\ pc = "next"
    /\ machines = <<>>
    /\ idx = 0
    /\ machine = NoMachine
    /\ offers = NoResponse
    /\ search = "none"
    /\ market = NoMarket
    /\ decision = NoDecision
    /\ update = NoUpdate
    /\ processed = <<>>

\* "for machine in machines": the loop variable takes the next machine.
NextMachine ==
    /\ pc = "next"
    /\ \E m \in Machines : machine' = m
    /\ pc' = "search"
    /\ UNCHANGED <<config, machines, idx, offers, search, market, decision,
                   update, processed>>

\* "market = self.get_market_data(...)": an exception of the snapshot build is
\* caught nowhere in process_machines or run and ends the process.
GetMarketData ==
    /\ pc = "search"
    /\ \E o \in SearchOutcomes :
          /\ search' = o.kind
          /\ IF o.kind = "raises"
             THEN pc' = "crashed" /\ market' = market
             ELSE pc' = "price" /\ market' = o.market
    /\ UNCHANGED <<config, machines, idx, machine, offers, decision, update,
                   processed>>

\* "decision = self.calculate_price(machine, market)" and the update call that
\* follows it when the action is not HOLD.
PriceMachine ==
    /\ pc = "price"
    /\ LET d == calculate_price(config, machine, market)
       IN  /\ decision' = d
           /\ IF d.action # "HOLD"
              THEN \E success \in BOOLEAN :
                      update' = UpdateCall(config, d.new_price, success)
              ELSE update' = NoUpdate
    /\ pc' = "done"
    /\ UNCHANGED <<config, machines, idx, machine, offers, search, market,
                   processed>>

\* The end of the loop body: its locals are dropped.
EndIteration ==
    /\ pc = "done"
    /\ pc' = "next"
    /\ machine' = NoMachine
    /\ search' = "none"
    /\ market' = NoMarket
    /\ decision' = NoDecision
    /\ update' = NoUpdate
    /\ UNCHANGED <<config, machines, idx, offers, processed>>

Next == NextMachine \/ GetMarketData \/ PriceMachine \/ EndIteration

Spec == Init /\ [][Next]_vars

----------------------------------------------------------------------------
\* Properties of the decision, read in the state where the loop body has ended.

Decided == pc = "done"
Idle == ~machine.is_rented
Current == machine.current_price

\* Every price statistic of the snapshot is absent.
AllAbsent(mkt) ==
    /\ mkt.avg_price = None /\ mkt.median_price = None /\ mkt.min_price = None
    /\ mkt.min_verified_price = None /\ mkt.unverified_avg_price = None
    /\ mkt.unverified_median_price = None /\ mkt.unverified_min_price = None

\* The reference minimum as the claims define it: the verified-population
\* minimum when the machine is verified and that minimum exists, the all-offers
\* minimum in every other case.
ClaimedReferenceMin ==
    IF machine.verified /\ market.min_verified_price # None
    THEN market.min_verified_price ELSE market.min_price

\* C1: a rented machine gets HOLD at its current price, whatever the snapshot
\* and the configuration, and no price-update call goes out for it.
C1_RentedHolds ==
    (Decided /\ machine.is_rented) =>
        /\ decision.action = "HOLD"
        /\ decision.new_price = Current
        /\ ~update.called

\* A rented machine priced above a present median, outside test mode: the
\* machine an idle decision would have cut.
C1_Witness ==
    /\ Decided /\ machine.is_rented /\ ~config.test_mode
    /\ Truthy(market.median_price) /\ Current > market.median_price

\* C2 as stated: every decision that is not HOLD carries a new price inside
\* [base_price, max_price].
C2_WithinBounds ==
    (Decided /\ decision.action # "HOLD") =>
        /\ config.base_price <= decision.new_price
        /\ decision.new_price <= config.max_price

\* C3: for an idle machine a snapshot with every statistic absent gives DECREASE
\* to clamp(current * 0.9), and a failed search and an empty result both give
\* such a snapshot.
C3_NoSignal ==
    (Decided /\ Idle) =>
        /\ search \in {"failed", "empty"} => AllAbsent(market)
        /\ AllAbsent(market) =>
              /\ decision.action = "DECREASE"
              /\ decision.new_price =
                    Round4(Max2(10 * config.base_price,
                                Min2(9 * Current, 10 * config.max_price)), 10)

\* An idle machine whose search failed, priced so that the cut stays above the
\* floor.
C3_Witness ==
    /\ Decided /\ Idle /\ search = "failed"
    /\ Current = MaxPrice /\ config.base_price = 0 /\ config.max_price = MaxPrice

\* C4 as stated: an idle machine priced above a present overall median gets
\* DECREASE to clamp(median * m), m = 0.95 if verified and 0.90 otherwise.
C4_AboveMedian ==
    (Decided /\ Idle /\ market.median_price # None
       /\ Current > market.median_price) =>
        /\ decision.action = "DECREASE"
        /\ decision.new_price =
              ClampPrice(config,
                         market.median_price * (IF machine.verified THEN 95 ELSE 90),
                         100)

\* C5 as stated: an idle machine at or below a present overall median is cut to
\* clamp(reference_minimum * 0.92) when it is above the reference minimum by
\* more than the dead band, and held at its current price when it is at or
\* below the reference minimum.
C5_NearMinimum ==
    (Decided /\ Idle /\ market.median_price # None
       /\ Current <= market.median_price) =>
        /\ (Current > ClaimedReferenceMin
              /\ Abs(92 * ClaimedReferenceMin - 100 * Current) > 5 * Current) =>
              /\ decision.action = "DECREASE"
              /\ decision.new_price =
                    ClampPrice(config, 92 * ClaimedReferenceMin, 100)
        /\ Current <= ClaimedReferenceMin =>
              /\ decision.action = "HOLD"
              /\ decision.new_price = Current

\* C8 as stated: a decision tagged DECREASE never carries a price above the
\* machine's current price.
C8_DecreaseNeverRaises ==
    (Decided /\ decision.action = "DECREASE") => decision.new_price <= Current

\* C9: for an idle machine with a positive price and a snapshot with a present
\* median, the decision is HOLD exactly when the price is at or below both the
\* median and the reference minimum, and DECREASE whenever it is above the
\* reference minimum: the dead band suppresses nothing.
C9_DeadBandNeverHolds ==
    (Decided /\ Idle /\ market.median_price # None /\ Current > 0) =>
        /\ decision.action = "HOLD" <=>
              (Current <= market.median_price /\ Current <= ClaimedReferenceMin)
        /\ Current > ClaimedReferenceMin => decision.action = "DECREASE"

\* An idle machine between the reference minimum and the median, where the
\* dead-band test is the one that decides.
C9_Witness ==
    /\ Decided /\ Idle /\ Truthy(market.median_price)
    /\ Current <= market.median_price /\ Current > ClaimedReferenceMin
    /\ ClaimedReferenceMin > 0
    /\ decision.reason = "near_minimum"

----------------------------------------------------------------------------
\* Properties of the snapshot, read against the offers it was built from.

Built == pc = "built" /\ offers.list # <<>>

\* The prices of a population's available offers, as the claim defines them:
\* the offers of the tier with rented = false and price > 0.
AvailableOf(tiers) ==
    DphBase(SelectSeq(offers.list,
                      LAMBDA o : o.verification \in tiers /\ ~o.rented
                                   /\ o.dph_base > 0))

\* The element at zero-based index k of the ascending order of a: the value
\* with at most k elements below it and more than k elements at or below it.
KthSmallest(a, k) ==
    CHOOSE x \in {a[i] : i \in 1..Len(a)} :
        /\ Cardinality({i \in 1..Len(a) : a[i] < x}) <= k
        /\ Cardinality({i \in 1..Len(a) : a[i] <= x}) > k

MiddleOf(a) == KthSmallest(a, Len(a) \div 2)

\* An empty population has no average, median or minimum.
EmptyPopulationsAbsent ==
    /\ AvailableOf(Verifications) = <<>> =>
          /\ market.avg_price = None /\ market.median_price = None
          /\ market.min_price = None
    /\ AvailableOf({"unverified", "deverified"}) = <<>> =>
          /\ market.unverified_avg_price = None
          /\ market.unverified_median_price = None
          /\ market.unverified_min_price = None
    /\ AvailableOf({"verified"}) = <<>> => market.min_verified_price = None

\* C7 as stated: each median equals the element at index floor(n/2) of the
\* sorted available prices of its population, and an empty population yields
\* absent statistics.
C7_MedianIsMiddleElement ==
    Built =>
        /\ EmptyPopulationsAbsent
        /\ AvailableOf(Verifications) # <<>> =>
              market.median_price = MiddleOf(AvailableOf(Verifications))
        /\ AvailableOf({"unverified", "deverified"}) # <<>> =>
              market.unverified_median_price =
                  MiddleOf(AvailableOf({"unverified", "deverified"}))

\* C7 amended: each median equals that element rounded to 4 decimal places.
C7_MedianIsRoundedMiddleElement ==
    Built =>
        /\ EmptyPopulationsAbsent
        /\ AvailableOf(Verifications) # <<>> =>
              market.median_price =
                  Round4(MiddleOf(AvailableOf(Verifications)), 1)
        /\ AvailableOf({"unverified", "deverified"}) # <<>> =>
              market.unverified_median_price =
                  Round4(MiddleOf(AvailableOf({"unverified", "deverified"})), 1)

\* Two available offers given in descending order, the dearer one off the
\* 4-decimal grid and verified, so that the unverified population has one member
\* and the verified-free statistics differ from the overall ones.
C7_Witness ==
    /\ Built /\ Len(offers.list) = 2
    /\ AvailableOf(Verifications) = <<MaxPrice - 1, 1>>
    /\ AvailableOf({"unverified", "deverified"}) = <<1>>
    /\ market.median_price = Round4(MaxPrice - 1, 1)

----------------------------------------------------------------------------
\* Specification of the poll loop: run's "while True" around process_machines
\* over the whole listing.  The snapshot and the decision are locals of the
\* loop body; the last decision and update call are kept for inspection.

\* What get_my_machines returns: the machines of the target GPU class, in the
\* order of the listing (a failed listing is the empty list).  A machine is
\* identified by its position.
\* The poll loop is explored with three prices per machine: zero, one grid
\* step and the largest price.
LoopMachines == {m \in Machines : m.current_price \in {0, Sub, MaxPrice}}

Listings == SeqsUpTo(LoopMachines, MaxMachines)

InitLoop ==
    /\ config \in Configs
    /\ pc = "poll"
    /\ machines = <<>>
    /\ idx = 0
    /\ machine = NoMachine
    /\ offers = NoResponse
    /\ search = "none"
    /\ market = NoMarket
    /\ decision = NoDecision
    /\ update = NoUpdate
    /\ processed = <<>>

\* "machines = self.get_my_machines()" and the early return on an empty list.
GetMyMachines ==
    /\ pc = "poll"
    /\ \E l \in Listings :
          /\ machines' = l
          /\ IF l = <<>> THEN pc' = "sleep" /\ idx' = 0
                         ELSE pc' = "loop" /\ idx' = 1
    /\ processed' = <<>>
    /\ UNCHANGED <<config, machine, offers, search, market, decision, update>>

\* One pass of the body of "for machine in machines".  An exception raised by
\* get_market_data leaves process_machines and run, which catches only
\* KeyboardInterrupt: the process ends.
ProcessMachine ==
    /\ pc = "loop"
    /\ idx <= Len(machines)
    /\ \E o \in SearchOutcomes :
          /\ search' = o.kind
          /\ IF o.kind = "raises"
             THEN /\ pc' = "crashed"
                  /\ UNCHANGED <<idx, decision, update, processed>>
             ELSE LET d == calculate_price(config, machines[idx], o.market)
                  IN  /\ decision' = d
                      /\ IF d.action # "HOLD"
                         THEN \E success \in BOOLEAN :
                                 update' = UpdateCall(config, d.new_price, success)
                         ELSE update' = NoUpdate
                      /\ processed' = Append(processed, idx)
                      /\ idx' = idx + 1
                      /\ pc' = IF idx = Len(machines) THEN "sleep" ELSE "loop"
    /\ UNCHANGED <<config, machines, machine, offers, market>>

\* "time.sleep(...)": the cycle is over, the next one starts afresh.
Sleep ==
    /\ pc = "sleep"
    /\ pc' = "poll"
    /\ machines' = <<>>
    /\ idx' = 0
    /\ search' = "none"
    /\ decision' = NoDecision
    /\ update' = NoUpdate
    /\ processed' = <<>>
    /\ UNCHANGED <<config, machine, offers, market>>

NextLoop == GetMyMachines \/ ProcessMachine \/ Sleep

SpecLoop == InitLoop /\ [][NextLoop]_vars

\* C6 as stated: no failure inside one machine's processing aborts the cycle
\* or the process: the process never terminates on it, and a cycle that ends
\* has processed every machine of the listing, in listing order.
C6_FailuresContained ==
    /\ pc # "crashed"
    /\ pc = "sleep" => processed = [i \in 1..Len(machines) |-> i]

----------------------------------------------------------------------------
\* Specification of repeated poll cycles for one machine that stays idle, under
\* a market snapshot that never changes and has a price signal, with every
\* update applied: the price the update call sends is the machine's current
\* price in the next listing.  run's loop never ends by itself, so a cycle that
\* can start does start.

\* The snapshots with a price signal the decision engine reads as one: a median
\* that is present and not 0.0.
SignalSnapshots ==
    {o.market : o \in {x \in SearchOutcomes :
                          x.kind = "offers" /\ Truthy(x.market.median_price)}}

InitConv ==
    /\ config \in {c \in Configs : ~c.test_mode}
    /\ pc = "poll"
    /\ machines = <<>>
    /\ idx = 0
    /\ machine \in {m \in Machines : ~m.is_rented}
    /\ offers = NoResponse
    /\ search = "offers"
    /\ market \in SignalSnapshots
    /\ decision = NoDecision
    /\ update = NoUpdate
    /\ processed = <<>>

\* process_machines for the one machine: decide, and apply a decision that is
\* not HOLD; the marketplace takes the new price.
PollCycle ==
    /\ pc = "poll"
    /\ LET d == calculate_price(config, machine, market)
       IN  /\ decision' = d
           /\ IF d.action # "HOLD"
              THEN /\ update' = UpdateCall(config, d.new_price, TRUE)
                   /\ machine' = [machine EXCEPT !.current_price = d.new_price]
              ELSE /\ update' = NoUpdate
                   /\ machine' = machine
    /\ pc' = "sleep"
    /\ UNCHANGED <<config, machines, idx, offers, search, market, processed>>

\* "time.sleep(...)" between two cycles.
SleepCycle ==
    /\ pc = "sleep"
    /\ pc' = "poll"
    /\ UNCHANGED <<config, machines, idx, machine, offers, search, market,
                   decision, update, processed>>

NextConv == PollCycle \/ SleepCycle

SpecConv == InitConv /\ [][NextConv]_vars /\ WF_vars(PollCycle) /\ WF_vars(SleepCycle)

\* C10 as stated: the machine's decision eventually becomes HOLD and stays
\* HOLD, so that from some cycle on no price-update call is issued for it.
C10_EventuallyHolds == <>[](decision.action = "HOLD" /\ ~update.called)

====
